---- MODULE Spec2Model ----
(***************************************************************************)
(* A model of vcfmerge.py: the combination of two VCF headers, the record  *)
(* stream of one file (the generator write_vcf_body) and the two-way merge *)
(* loop of main.                                                           *)
(*                                                                         *)
(* Text is a sequence of one-character strings ("10" is <<"1","0">>), so   *)
(* that text comparison, int() and the test line[0] == "#" are computed,   *)
(* not assumed.  A line of a file is the sequence of its tab-separated     *)
(* columns (line.rstrip().split("\t")), each column a text, except a       *)
(* sample column, which is the sequence of its pieces with ":" as a piece  *)
(* of its own.  Python indices are kept 0-based where the code stores them *)
(* (the sample projection), and shifted by one where a sequence is read.   *)
(***************************************************************************)
EXTENDS Integers, Sequences, FiniteSets, Bags, TLC

VARIABLES
  h1, h2,        \* the two headers get_header returned (combine_headers adds 'idxs')
  header,        \* the merged header, NoHeader before combine_headers returned
  warnings,      \* the ids combine_headers warned about, in order
  files,         \* files[k]: the lines of vcf k (k = 0, 1) after the header block
  remove_ref,    \* the --remove-ref flag
  gens,          \* gens[k]: the generator write_vcf_body(vcf k): cursor, skipped, tot, state
  yielded,       \* yielded[k]: what gens[k] yielded so far, with the line it came from
  pq,            \* the heap of main
  last_chrom,    \* None or the chromosome of the current record
  cur,           \* the record popped last (chrom, pos, i, toks)
  seedk,         \* the index of the generator the seeding loop is at
  pc,            \* the position in main
  err,           \* the exception that ended main, "none" if none
  head_out,      \* the header lines printed (header_str), <<>> before
  out,           \* the records printed, in order
  emitLine       \* emitLine[n]: the source line of the print that wrote out[n]

vars == <<h1, h2, header, warnings, files, remove_ref, gens, yielded, pq,
          last_chrom, cur, seedk, pc, err, head_out, out, emitLine>>

None == <<"None">>

\* The value of header before combine_headers returned.
NoHeader == [none |-> TRUE]

\* ------------------------------------------------------------------ text

Digits == <<"0", "1", "2", "3", "4", "5", "6", "7", "8", "9">>

\* The code point order of the characters the model's chromosome names use.
Ord(c) == CHOOSE n \in 1..Len(Digits) : Digits[n] = c

\* Python's str < str: lexicographic by character, a proper prefix first.
RECURSIVE TextLess(_, _)
TextLess(a, b) ==
  IF b = <<>> THEN FALSE
  ELSE IF a = <<>> THEN TRUE
  ELSE IF Head(a) # Head(b) THEN Ord(Head(a)) < Ord(Head(b))
  ELSE TextLess(Tail(a), Tail(b))

\* int(text) of a text of decimal digits.
RECURSIVE ToInt(_)
ToInt(t) ==
  IF t = <<>> THEN 0
  ELSE 10 * ToInt(SubSeq(t, 1, Len(t) - 1)) + (Ord(t[Len(t)]) - 1)

\* ------------------------------------------------------------- the heap

\* Python's tuple comparison of two heap entries (chrom, pos, i, toks): the
\* first three components decide whenever the two entries differ in one of them.
KeyLess(a, b) ==
  \/ TextLess(a.chrom, b.chrom)
  \/ a.chrom = b.chrom /\ a.pos < b.pos
  \/ a.chrom = b.chrom /\ a.pos = b.pos /\ a.i < b.i

\* heapq.heappush: the heap is kept as the ascending list of its entries, which
\* pops in the same order as the binary heap.
\* A push that leaves the entry in front, whatever its key.
HeapPush_Front(q, r) == <<r>> \o q

RECURSIVE HeapPush(_, _)
HeapPush(q, r) ==
  IF q = <<>> THEN <<r>>
  ELSE IF KeyLess(r, Head(q)) THEN <<r>> \o q
  ELSE <<Head(q)>> \o HeapPush(Tail(q), r)

\* heapq.heappop: the least entry and the rest (the caller tests q # <<>>).
HeapTop(q) == Head(q)

HeapRest_Keep(q) == q

HeapRest(q) == Tail(q)

\* ---------------------------------------------------------- the headers

Categories == <<"formats", "infos", "contigs", "filters">>

\* A definition map is an OrderedDict: the sequence of its items in insertion
\* order, each item [id, line], no id twice.  A definition line is its ID, its
\* Type value and the words of its Description.
HasKey(m, id) == \E n \in 1..Len(m) : m[n].id = id

Lookup(m, id) == m[CHOOSE n \in 1..Len(m) : m[n].id = id].line

\* An assignment that drops the key and appends it anew.
SetKey_MoveToEnd(m, id, line) ==
  LET Other(e) == e.id # id
  IN Append(SelectSeq(m, Other), [id |-> id, line |-> line])

\* m[id] = line: in place for a key the map holds, appended otherwise.
SetKey(m, id, line) ==
  IF HasKey(m, id)
  THEN [n \in 1..Len(m) |-> IF m[n].id = id THEN [id |-> id, line |-> line] ELSE m[n]]
  ELSE Append(m, [id |-> id, line |-> line])

Keys(m) == [n \in 1..Len(m) |-> m[n].id]

\* "=Float" in line: the text =Float occurs as the Type value or in the
\* Description.
ContainsFloat(line) ==
  \/ line.type = "Float"
  \/ \E n \in 1..Len(line.desc) : line.desc[n] = "=Float"

\* The tie-break of two differing lines for one id: TRUE when h2's line replaces
\* the working entry.
UseSecond(mine, info) == ContainsFloat(info) /\ ~ContainsFloat(mine)

\* The loop without the test header[k][id] != info: every id of both maps is a
\* conflict.
RECURSIVE MergeDefs_NoEqualTest(_, _, _)
MergeDefs_NoEqualTest(m, items, w) ==
  IF items = <<>> THEN [map |-> m, warnings |-> w]
  ELSE LET id == Head(items).id
           info == Head(items).line
       IN IF HasKey(m, id)
          THEN MergeDefs_NoEqualTest(m, Tail(items), Append(w, [id |-> id, using |-> Lookup(m, id)]))
          ELSE MergeDefs_NoEqualTest(SetKey(m, id, info), Tail(items), w)

\* The loop over h2[k].items() on a working copy m of h1[k]; w collects the ids
\* warned about.
RECURSIVE MergeDefs(_, _, _)
MergeDefs(m, items, w) ==
  IF items = <<>> THEN [map |-> m, warnings |-> w]
  ELSE LET id == Head(items).id
           info == Head(items).line
       IN IF HasKey(m, id)
          THEN IF Lookup(m, id) # info
               THEN IF UseSecond(Lookup(m, id), info)
                    THEN MergeDefs(SetKey(m, id, info), Tail(items),
                                   Append(w, [id |-> id, using |-> info]))
                    ELSE MergeDefs(m, Tail(items),
                                   Append(w, [id |-> id, using |-> Lookup(m, id)]))
               ELSE MergeDefs(m, Tail(items), w)
          ELSE MergeDefs(SetKey(m, id, info), Tail(items), w)

Member(s, x) == \E n \in 1..Len(s) : s[n] = x

\* list.index(x): the 0-based place of the first x, -1 standing for ValueError.
IndexOf(s, x) ==
  IF Member(s, x) THEN (CHOOSE n \in 1..Len(s) : s[n] = x /\ \A j \in 1..(n - 1) : s[j] # x) - 1
  ELSE -1

\* The shared samples taken in samples2's order.
RECURSIVE H1Idxs_OtherOrder(_, _, _)
H1Idxs_OtherOrder(samples1, samples2, n) ==
  IF n > Len(samples2) THEN <<>>
  ELSE (IF Member(samples1, samples2[n])
        THEN <<[idx |-> IndexOf(samples1, samples2[n]), name |-> samples2[n]]>> ELSE <<>>)
       \o H1Idxs_OtherOrder(samples1, samples2, n + 1)

\* [(i, s) for i, s in enumerate(samples1) if s in samples2]
RECURSIVE H1Idxs(_, _, _)
H1Idxs(samples1, samples2, n) ==
  IF n > Len(samples1) THEN <<>>
  ELSE (IF Member(samples2, samples1[n]) THEN <<[idx |-> n - 1, name |-> samples1[n]]>> ELSE <<>>)
       \o H1Idxs(samples1, samples2, n + 1)

\* The projection of h2 taken to be that of h1.
H2Idxs_SamePlace(h1_idxs, samples2) == h1_idxs

\* [(samples2.index(s), s) for i, s in h1_idxs]
H2Idxs(h1_idxs, samples2) ==
  [n \in 1..Len(h1_idxs) |-> [idx |-> IndexOf(samples2, h1_idxs[n].name), name |-> h1_idxs[n].name]]

\* h1's list followed by all of h2's.
MergeOther_Concat(acc, others) == acc \o others

\* The loop over h2['other'] on the growing list.
RECURSIVE MergeOther(_, _)
MergeOther(acc, others) ==
  IF others = <<>> THEN acc
  ELSE MergeOther(IF Member(acc, Head(others)) THEN acc ELSE Append(acc, Head(others)),
                  Tail(others))

\* combine_headers(a, b): the merged header, the two projections, the warnings,
\* and "ValueError" when a sample lookup in b fails.
CombineHeaders(a, b) ==
  LET i1 == H1Idxs(a.samples, b.samples, 1)
      i2 == H2Idxs(i1, b.samples)
      f == MergeDefs(a.formats, b.formats, <<>>)
      i == MergeDefs(a.infos, b.infos, f.warnings)
      c == MergeDefs(a.contigs, b.contigs, i.warnings)
      t == MergeDefs(a.filters, b.filters, c.warnings)
  IN [idxs1 |-> i1, idxs2 |-> i2,
      err |-> IF \E n \in 1..Len(i2) : i2[n].idx < 0 THEN "ValueError" ELSE "none",
      warnings |-> t.warnings,
      header |-> [formats |-> f.map, infos |-> i.map, contigs |-> c.map,
                  filters |-> t.map, other |-> MergeOther(a.other, b.other),
                  samples |-> [n \in 1..Len(i1) |-> i1[n].name]]]

\* header_str(header): the lines printed before the records, each by its kind.
HeaderStr(hdr) ==
  LET Values(m) == [n \in 1..Len(m) |-> [definition |-> m[n].line]]
  IN <<[fileformat |-> "VCFv4.1"]>>
     \o [n \in 1..Len(hdr.other) |-> [other |-> hdr.other[n]]]
     \o Values(hdr.formats) \o Values(hdr.infos) \o Values(hdr.contigs) \o Values(hdr.filters)
     \o <<[columns |-> <<"#CHROM", "POS", "ID", "REF", "ALT", "QUAL", "FILTER", "INFO", "FORMAT">>
                        \o hdr.samples]>>

\* ------------------------------------------------------ the record stream

NoCall == {".", "./.", "0/0", ".|.", "0|0"}

\* s.split(":", 1)[0]: the pieces of a sample column before its first ":".
RECURSIVE LeadingToken(_)
LeadingToken(s) ==
  IF s = <<>> \/ Head(s) = ":" THEN <<>>
  ELSE <<Head(s)>> \o LeadingToken(Tail(s))

AllUnknownOrRef_Any(samples) ==
  \E n \in 1..Len(samples) : \E t \in NoCall : LeadingToken(samples[n]) = <<t>>

\* all_unknown_or_ref(samples)
AllUnknownOrRef(samples) ==
  \A n \in 1..Len(samples) : \E t \in NoCall : LeadingToken(samples[n]) = <<t>>

\* line[0] == "#"
IsMeta(line) == line[1] # <<>> /\ line[1][1] = "#"

NeedsRefFix_AnyAlt(toks) == toks[4] = <<"N">>

\* toks[3] == "N" and toks[4][0] == "<"
NeedsRefFix(toks) == toks[4] = <<"N">> /\ toks[5][1] = "<"

FixRef(toks) == IF NeedsRefFix(toks) THEN [toks EXCEPT ![4] = <<".">>] ELSE toks

\* [h[0] for h in hdr['idxs']]
IdxsOf(hdr) == [n \in 1..Len(hdr.idxs) |-> hdr.idxs[n].idx]

NewGen == [pos |-> 0, skipped |-> 0, tot |-> 0, state |-> "running"]

\* line.rstrip().split("\t"): the columns of the line without the empty columns
\* at its end (rstrip takes the tabs that close them as white space).
RECURSIVE Toks(_)
Toks(line) ==
  IF Len(line) > 1 /\ line[Len(line)] = <<>> THEN Toks(SubSeq(line, 1, Len(line) - 1))
  ELSE line

\* next(g) on the generator write_vcf_body(path, hdr, file_idx, remove_ref):
\* the body runs from its cursor to the next yield, to the end of the file
\* (StopIteration) or to an IndexError (samples[i] past the line's columns, or
\* toks[4][0] of an empty ALT beside the REF N).  A generator that has ended or
\* raised stays ended.
RECURSIVE GenNext(_, _, _, _, _)
GenNext(lines, g, idxs, file_idx, rr) ==
  IF g.state # "running" THEN [kind |-> "stop", gen |-> g]
  ELSE IF g.pos >= Len(lines) THEN [kind |-> "stop", gen |-> [g EXCEPT !.state = "done"]]
  ELSE LET line == lines[g.pos + 1] IN
    IF IsMeta(line) THEN GenNext(lines, [g EXCEPT !.pos = @ + 1], idxs, file_idx, rr)
    ELSE
      LET samples == SubSeq(Toks(line), 10, Len(Toks(line)))
          g1 == [g EXCEPT !.pos = @ + 1, !.tot = @ + 1]
      IN IF \E n \in 1..Len(idxs) : idxs[n] >= Len(samples)
         THEN [kind |-> "raise", gen |-> [g1 EXCEPT !.state = "failed"]]
         ELSE
           LET picked == [n \in 1..Len(idxs) |-> samples[idxs[n] + 1]] IN
           IF rr /\ AllUnknownOrRef(picked)
           THEN GenNext(lines, [g1 EXCEPT !.skipped = @ + 1], idxs, file_idx, rr)
           ELSE IF line[4] = <<"N">> /\ line[5] = <<>>
           THEN [kind |-> "raise", gen |-> [g1 EXCEPT !.state = "failed"]]
           ELSE LET toks == FixRef(SubSeq(line, 1, 9) \o picked)
                IN [kind |-> "rec", gen |-> g1,
                    rec |-> [chrom |-> toks[1], pos |-> ToInt(toks[2]),
                             i |-> file_idx, toks |-> toks]]

\* The header of file k and next(gens[k]) in the current state.
Hdr(k) == IF k = 0 THEN h1 ELSE h2

Pull(k) == GenNext(files[k], gens[k], IdxsOf(Hdr(k)), k, remove_ref)

\* ------------------------------------------------------------------ main

H1After_Shared(a, h1_idxs, merged) ==
  [infos |-> merged.infos, formats |-> merged.formats, contigs |-> merged.contigs,
   filters |-> merged.filters, other |-> a.other, samples |-> a.samples,
   idxs |-> h1_idxs]

\* h1 after combine_headers(h1, h2): h1['idxs'] is set; header[k] is a copy of
\* h1[k], so the lines of h2 that are written into header[k] are not written
\* into h1[k].
H1After(a, h1_idxs, merged) == [a EXCEPT !.idxs = h1_idxs]

\* h2 after combine_headers(h1, h2): h2['idxs'] is set.
H2After(b, h2_idxs) == [b EXCEPT !.idxs = h2_idxs]

\* What a pull adds to the record of what gens[k] yielded: the record and the
\* 1-based number of the line it was built from.
Yielded(k, r) ==
  IF r.kind = "rec"
  THEN [yielded EXCEPT ![k] = Append(@, [rec |-> r.rec, line |-> r.gen.pos])]
  ELSE yielded

\* h1 = get_header(vcf1); h2 = get_header(vcf2); header = combine_headers(h1, h2);
\* the header is printed and the two generators are created (no line of their
\* bodies runs yet).
Combine ==
  /\ pc = "start"
  /\ LET r == CombineHeaders(h1, h2) IN
       IF r.err # "none"
       THEN /\ pc' = "error"
            /\ err' = r.err
            /\ UNCHANGED <<h1, h2, header, warnings, head_out>>
       ELSE /\ h1' = H1After(h1, r.idxs1, r.header)
            /\ h2' = H2After(h2, r.idxs2)
            /\ header' = r.header
            /\ warnings' = r.warnings
            /\ head_out' = HeaderStr(r.header)
            /\ pc' = "seed"
            /\ err' = err
  /\ UNCHANGED <<files, remove_ref, gens, yielded, pq, last_chrom, cur, seedk, out, emitLine>>

\* for g in gens: heapq.heappush(pq, next(g)), one turn of the loop: no handler
\* is around next(g).
Seed ==
  /\ pc = "seed"
  /\ LET r == Pull(seedk) IN
       /\ gens' = [gens EXCEPT ![seedk] = r.gen]
       /\ yielded' = Yielded(seedk, r)
       /\ IF r.kind = "rec"
          THEN /\ pq' = HeapPush(pq, r.rec)
               /\ seedk' = seedk + 1
               /\ pc' = IF seedk = 1 THEN "loop" ELSE "seed"
               /\ err' = err
          ELSE /\ pc' = "error"
               /\ err' = IF r.kind = "stop" THEN "StopIteration" ELSE "IndexError"
               /\ UNCHANGED <<pq, seedk>>
  /\ UNCHANGED <<head_out, h1, h2, header, warnings, files, remove_ref, last_chrom, cur, out, emitLine>>

\* while pq: fails, the loop is left.
LoopExit ==
  /\ pc = "loop"
  /\ pq = <<>>
  /\ pc' = "done"
  /\ UNCHANGED <<head_out, h1, h2, header, warnings, files, remove_ref, gens, yielded, pq,
                 last_chrom, cur, seedk, err, out, emitLine>>

\* while pq: holds; the least entry is popped and the chromosome test decides
\* the branch.
Pop ==
  /\ pc = "loop"
  /\ pq # <<>>
  /\ cur' = HeapTop(pq)
  /\ pq' = HeapRest(pq)
  /\ pc' = IF last_chrom # HeapTop(pq).chrom /\ last_chrom # None THEN "boundary" ELSE "normal"
  /\ UNCHANGED <<head_out, h1, h2, header, warnings, files, remove_ref, gens, yielded,
                 last_chrom, seedk, err, out, emitLine>>

\* The refill of both generators in the chromosome-boundary branch, from heap q:
\* for k in range(2): try: push(next(gens[k])) except StopIteration: pass.
BoundaryRefill(q) ==
  LET r0 == Pull(0)
      q0 == IF r0.kind = "rec" THEN HeapPush(q, r0.rec) ELSE q
      y0 == Yielded(0, r0)
  IN IF r0.kind = "raise"
     THEN [failed |-> TRUE, pq |-> q0, gens |-> [gens EXCEPT ![0] = r0.gen], yielded |-> y0]
     ELSE LET r1 == Pull(1)
              q1 == IF r1.kind = "rec" THEN HeapPush(q0, r1.rec) ELSE q0
          IN [failed |-> r1.kind = "raise", pq |-> q1,
              gens |-> [gens EXCEPT ![0] = r0.gen, ![1] = r1.gen],
              yielded |-> IF r1.kind = "rec"
                          THEN [y0 EXCEPT ![1] = Append(@, [rec |-> r1.rec, line |-> r1.gen.pos])]
                          ELSE y0]

\* The chromosome-boundary branch: the popped record is printed, a second one is
\* popped and printed, both generators are pulled, and the loop is left on an
\* empty heap or resumed with a third pop.
Boundary ==
  /\ pc = "boundary"
  /\ IF pq = <<>>
     THEN /\ out' = Append(out, cur)
          /\ emitLine' = Append(emitLine, 136)
          /\ pc' = "error"
          /\ err' = "IndexError"
          /\ UNCHANGED <<pq, cur, gens, yielded>>
     ELSE LET f == BoundaryRefill(HeapRest(pq)) IN
          /\ out' = out \o <<cur, HeapTop(pq)>>
          /\ emitLine' = emitLine \o <<136, 138>>
          /\ gens' = f.gens
          /\ yielded' = f.yielded
          /\ IF f.failed
             THEN /\ pc' = "error"
                  /\ err' = "IndexError"
                  /\ pq' = f.pq
                  /\ cur' = HeapTop(pq)
             ELSE IF f.pq = <<>>
             THEN /\ pc' = "done"
                  /\ err' = err
                  /\ pq' = f.pq
                  /\ cur' = HeapTop(pq)
             ELSE /\ pc' = "normal"
                  /\ err' = err
                  /\ pq' = HeapRest(f.pq)
                  /\ cur' = HeapTop(f.pq)
  /\ UNCHANGED <<head_out, h1, h2, header, warnings, files, remove_ref, last_chrom, seedk>>

\* The rest of a turn of the loop: last_chrom is set, the current record's own
\* generator is pulled (StopIteration is passed over), the record is printed.
Normal ==
  /\ pc = "normal"
  /\ last_chrom' = cur.chrom
  /\ LET r == Pull(cur.i) IN
       /\ gens' = [gens EXCEPT ![cur.i] = r.gen]
       /\ yielded' = Yielded(cur.i, r)
       /\ pq' = IF r.kind = "rec" THEN HeapPush(pq, r.rec) ELSE pq
       /\ IF r.kind = "raise"
          THEN /\ pc' = "error"
               /\ err' = "IndexError"
               /\ UNCHANGED <<out, emitLine>>
          ELSE /\ pc' = "loop"
               /\ err' = err
               /\ out' = Append(out, cur)
               /\ emitLine' = Append(emitLine, 156)
  /\ UNCHANGED <<head_out, h1, h2, header, warnings, files, remove_ref, cur, seedk>>

Next == Combine \/ Seed \/ LoopExit \/ Pop \/ Boundary \/ Normal

\* The heap after try: heappush(pq, next(g)) except StopIteration: pass, for a
\* generator that has the records s still to yield.
PushNext(q, s) == IF s = <<>> THEN q ELSE HeapPush(q, Head(s))

Rest(s) == IF s = <<>> THEN s ELSE Tail(s)

\* while pq: ... of main, run to its end on the heap q, last_chrom = last, the
\* records s[0] and s[1] the two generators have still to yield, and o printed
\* so far: what is printed, and how the loop ends.
RECURSIVE MainLoop(_, _, _, _)
MainLoop(q, last, s, o) ==
  LET Turn(c, q1, s1, o1) ==
        MainLoop(PushNext(q1, s1[c.i]), c.chrom, [s1 EXCEPT ![c.i] = Rest(@)],
                 Append(o1, c))
  IN IF q = <<>> THEN [out |-> o, end |-> "done"]
     ELSE IF last # HeapTop(q).chrom /\ last # None
     THEN IF HeapRest(q) = <<>>
          THEN [out |-> Append(o, HeapTop(q)), end |-> "IndexError"]
          ELSE LET q3 == PushNext(PushNext(HeapRest(HeapRest(q)), s[0]), s[1])
                   o2 == o \o <<HeapTop(q), HeapTop(HeapRest(q))>>
               IN IF q3 = <<>> THEN [out |-> o2, end |-> "done"]
                  ELSE Turn(HeapTop(q3), HeapRest(q3), [k \in {0, 1} |-> Rest(s[k])], o2)
     ELSE Turn(HeapTop(q), HeapRest(q), s, o)

\* main from the seeding of the heap on, for generators that yield the records
\* s[0] and s[1].
MainRun(s) ==
  IF s[0] = <<>> \/ s[1] = <<>> THEN [out |-> <<>>, end |-> "StopIteration"]
  ELSE MainLoop(HeapPush(HeapPush(<<>>, Head(s[0])), Head(s[1])), None,
                [k \in {0, 1} |-> Tail(s[k])], <<>>)

\* ---------------------------------------------------------------- inputs

\* The files hold at most MaxLines data lines together.
MaxLines == 4

\* Chromosome names whose text order ("10" before "2") is not their numeric
\* order, and positions whose numeric order (5 before 10) is not their text order.
Chroms == {<<"1", "0">>, <<"2">>}
Positions == {<<"5">>, <<"1", "0">>}

GtHet == <<"0/1", ":", "7">>
GtRef == <<"0/0", ":", "7">>

\* A data line: CHROM POS ID REF ALT QUAL FILTER INFO FORMAT and the samples.
MkLine(chrom, pos, ref, alt, samples) ==
  <<chrom, pos, <<".">>, ref, alt, <<".">>, <<".">>, <<".">>, <<"G", "T">>>> \o samples

DefLine(id, type, desc) == [id |-> id, type |-> type, desc |-> desc]
Item(line) == [id |-> line.id, line |-> line]

EmptyHeader ==
  [infos |-> <<>>, formats |-> <<>>, contigs |-> <<>>, filters |-> <<>>,
   other |-> <<>>, samples |-> <<>>, idxs |-> None]

\* The headers of the merge runs: file 0 has the samples S1, S2 and file 1 the
\* sample S2, so that the merged sample is column 1 of file 0 and column 0 of
\* file 1.
MergeH1 ==
  [EmptyHeader EXCEPT !.formats = <<Item(DefLine("GT", "String", <<"g">>))>>,
                      !.infos = <<Item(DefLine("DP", "Integer", <<"d">>))>>,
                      !.other = <<"##source=a">>,
                      !.samples = <<"S1", "S2">>]
MergeH2 ==
  [EmptyHeader EXCEPT !.formats = <<Item(DefLine("GT", "String", <<"g">>))>>,
                      !.infos = <<Item(DefLine("DP", "Float", <<"d">>))>>,
                      !.other = <<"##source=b">>,
                      !.samples = <<"S2">>]

MergeLines(k) ==
  { MkLine(c, p, <<"A">>, <<"T">>, IF k = 0 THEN <<GtHet, g>> ELSE <<g>>) :
      c \in Chroms, p \in Positions, g \in {GtHet, GtRef} }

\* The lines are in order: non-decreasing in (chromosome as text, position).
LineLeq(a, b) ==
  \/ TextLess(a[1], b[1])
  \/ a[1] = b[1] /\ ToInt(a[2]) <= ToInt(b[2])

\* The sorted files of n lines of file k.
RECURSIVE SortedFiles(_, _)
SortedFiles(k, n) ==
  IF n = 0 THEN {<<>>}
  ELSE { Append(f, l) : <<f, l>> \in
           { x \in SortedFiles(k, n - 1) \X MergeLines(k) :
               x[1] = <<>> \/ LineLeq(x[1][Len(x[1])], x[2]) } }

Quiet ==
  /\ header = NoHeader
  /\ warnings = <<>>
  /\ gens = [k \in {0, 1} |-> NewGen]
  /\ yielded = [k \in {0, 1} |-> <<>>]
  /\ pq = <<>>
  /\ last_chrom = None
  /\ cur = None
  /\ seedk = 0
  /\ pc = "start"
  /\ err = "none"
  /\ head_out = <<>>
  /\ out = <<>>
  /\ emitLine = <<>>

Init ==
  /\ h1 = MergeH1
  /\ h2 = MergeH2
  /\ remove_ref \in BOOLEAN
  /\ \E n0 \in 0..MaxLines : \E n1 \in 0..(MaxLines - n0) :
       \E f0 \in SortedFiles(0, n0) : \E f1 \in SortedFiles(1, n1) :
         files = [k \in {0, 1} |-> IF k = 0 THEN f0 ELSE f1]
  /\ Quiet

Spec == Init /\ [][Next]_vars

\* ------------------------------------------- the header and stream inputs

\* One next(gens[k]) on its own, as any consumer of the generator may call it
\* once the headers are combined.
Resume ==
  /\ pc = "seed"
  /\ \E k \in {0, 1} :
       /\ gens[k].state = "running"
       /\ gens' = [gens EXCEPT ![k] = Pull(k).gen]
       /\ yielded' = Yielded(k, Pull(k))
  /\ UNCHANGED <<head_out, h1, h2, header, warnings, files, remove_ref, pq, last_chrom, cur,
                 seedk, pc, err, out, emitLine>>

NextUnit == Combine \/ Resume

\* A header names at most MaxSamples samples and holds at most MaxOther other lines.
MaxSamples == 3
MaxOther == 2

SampleNames == {"S1", "S2", "S3"}
DefIds == {"DP", "AF"}
OtherLines == {"##source=a", "##source=b"}

SeqsUpTo(S, n) == UNION { [1..m -> S] : m \in 0..n }

\* The definition lines of an id: the type Integer or Float, and a description
\* that may itself hold the text =Float.
DefLines(id) ==
  { DefLine(id, t, d) : t \in {"Integer", "Float"}, d \in {<<"d">>, <<"was", "=Float">>} }

\* The definition maps get_header can build over DefIds: no id twice.
RECURSIVE DefMaps(_)
DefMaps(ids) ==
  {<<>>} \cup UNION { UNION { { <<Item(l)>> \o m : m \in DefMaps(ids \ {id}) } :
                              l \in DefLines(id) } : id \in ids }

MetaLine == <<<<"#", "C", "H", "R", "O", "M">>>>

\* The one data line of a file whose header names n samples: sample column j
\* (0-based) is the genotype 0/1 followed by the digit j.
ColumnsLine(n) ==
  MkLine(<<"2">>, <<"5">>, <<"A">>, <<"T">>, [j \in 1..n |-> <<"0/1", ":", Digits[j]>>])

UnitFiles(a, b) ==
  [k \in {0, 1} |-> <<MetaLine, ColumnsLine(Len(IF k = 0 THEN a.samples ELSE b.samples))>>]

InitSamples ==
  \E s1 \in SeqsUpTo(SampleNames, MaxSamples) : \E s2 \in SeqsUpTo(SampleNames, MaxSamples) :
    /\ h1 = [MergeH1 EXCEPT !.samples = s1]
    /\ h2 = [MergeH2 EXCEPT !.samples = s2]

InitDefs ==
  \E n \in 1..Len(Categories) : \E m1 \in DefMaps(DefIds) : \E m2 \in DefMaps(DefIds) :
    /\ h1 = [MergeH1 EXCEPT ![Categories[n]] = m1]
    /\ h2 = [MergeH2 EXCEPT ![Categories[n]] = m2]

InitOther ==
  \E o1 \in SeqsUpTo(OtherLines, MaxOther) : \E o2 \in SeqsUpTo(OtherLines, MaxOther) :
    /\ h1 = [MergeH1 EXCEPT !.other = o1]
    /\ h2 = [MergeH2 EXCEPT !.other = o2]

\* A file whose first data line lacks its last sample column, before a full line.
ShortFile(n) == <<MetaLine, ColumnsLine(n - 1), ColumnsLine(n)>>

\* Sample lists as in InitSamples, one of the two files (with a sample at least)
\* holding a short line.
InitShort ==
  /\ InitSamples
  /\ \E k \in {0, 1} :
       /\ Len(Hdr(k).samples) >= 1
       /\ files = [j \in {0, 1} |-> IF j = k THEN ShortFile(Len(Hdr(j).samples))
                                     ELSE UnitFiles(h1, h2)[j]]
  /\ remove_ref = FALSE

\* Sample columns: the five tokens of all_unknown_or_ref alone and before a ":",
\* and columns that only resemble them ("0/00", an empty column, a token after
\* the ":").
Genotypes ==
  { <<".">>, <<"./.">>, <<"0/0">>, <<".|.">>, <<"0|0">>, <<"0/0", ":", "7">>, <<"0/1">>,
    <<"0/0", "0">>, <<>>, <<".", ":", "0/1">>, <<"1", ":", "0/0">> }

GtLine(samples) == MkLine(<<"2">>, <<"5">>, <<"A">>, <<"T">>, samples)

\* File 0 has the samples S1, S2, S3 and file 1 the samples S3, S2: the merged
\* samples S2, S3 are the columns 1, 2 of file 0 and 1, 0 of file 1.  File 0
\* holds one line, its projected columns any two genotypes; file 1 two lines.
InitGenotypes ==
  /\ h1 = [MergeH1 EXCEPT !.samples = <<"S1", "S2", "S3">>]
  /\ h2 = [MergeH2 EXCEPT !.samples = <<"S3", "S2">>]
  /\ remove_ref \in BOOLEAN
  /\ \E c \in {<<"0/0">>, <<"0/1">>} : \E a \in Genotypes : \E b \in Genotypes :
     \E x \in {<<"0/0">>, <<"1/1">>} : \E y \in {<<"0/0">>, <<"1/1">>} :
     \E z \in {<<"0|0">>, <<"1|1">>} :
       files = [k \in {0, 1} |-> IF k = 0 THEN <<MetaLine, GtLine(<<c, a, b>>)>>
                                  ELSE <<GtLine(<<x, y>>), GtLine(<<z, <<".">>>>)>>]

Refs == {<<"N">>, <<"A">>, <<"N", "N">>, <<".">>}
Alts == {<<"<", "D", "E", "L", ">">>, <<"T">>, <<"T", "<">>, <<>>}

\* One line a file, of any REF and ALT.
InitRefAlt ==
  /\ h1 = MergeH1
  /\ h2 = MergeH2
  /\ remove_ref = FALSE
  /\ \E r0 \in Refs : \E a0 \in Alts : \E r1 \in Refs : \E a1 \in Alts :
       files = [k \in {0, 1} |->
                  IF k = 0 THEN <<MkLine(<<"2">>, <<"5">>, r0, a0, <<GtHet, GtRef>>)>>
                  ELSE <<MkLine(<<"2">>, <<"1", "0">>, r1, a1, <<GtHet>>)>>]

InitUnit ==
  /\ \/ /\ InitSamples \/ InitDefs \/ InitOther
        /\ files = UnitFiles(h1, h2)
        /\ remove_ref = FALSE
     \/ InitShort
     \/ InitGenotypes
     \/ InitRefAlt
  /\ Quiet

SpecUnit == InitUnit /\ [][NextUnit]_vars

\* ------------------------------------------------- the merge: properties

\* list(write_vcf_body(vcf k, ...)): every record the stream of file k yields
\* when it is run to its end from a fresh generator.
RECURSIVE Drain(_, _)
Drain(k, g) ==
  LET r == GenNext(files[k], g, IdxsOf(Hdr(k)), k, remove_ref)
  IN IF r.kind = "rec" THEN <<r.rec>> \o Drain(k, r.gen) ELSE <<>>

StreamOf(k) == Drain(k, NewGen)

\* a sorts strictly before b in (chromosome as text, position).
Before(a, b) ==
  \/ TextLess(a.chrom, b.chrom)
  \/ a.chrom = b.chrom /\ a.pos < b.pos

SameSite(a, b) == a.chrom = b.chrom /\ a.pos = b.pos

SeqBag(s) == [x \in {s[n] : n \in 1..Len(s)} |-> Cardinality({n \in 1..Len(s) : s[n] = x})]

Halted == pc \in {"done", "error"}

\* C1: the records printed are non-decreasing in (chromosome, position) over the
\* whole output, the two inputs being sorted.
C1_OutputSorted ==
  \A n \in 1..(Len(out) - 1) : ~Before(out[n + 1], out[n])

\* C2: with remove-ref off, once main has ended, the records printed are as a
\* multiset the records of the two streams: none dropped, none printed twice.
C2_EveryRecordOnce ==
  (Halted /\ ~remove_ref) => SeqBag(out) = SeqBag(StreamOf(0) \o StreamOf(1))

\* C3: a pull that finds its stream exhausted never ends main: StopIteration
\* reaches no place where it is not handled, whichever pull it is.
C3_ExhaustionIsNoFailure == err # "StopIteration"

\* C4: main ends normally: when it has ended, it left the loop by an empty-heap
\* test, the heap is empty and both streams are exhausted.
C4_EndsNormally ==
  Halted => /\ pc = "done"
            /\ pq = <<>>
            /\ \A k \in {0, 1} : gens[k].state = "done"

\* C5: of a record of file 0 and a record of file 1 with the same chromosome
\* and position, the record of file 0 is printed first.
C5_TieBySource ==
  \A m \in 1..Len(out) : \A n \in (m + 1)..Len(out) :
    ~(SameSite(out[m], out[n]) /\ out[m].i = 1 /\ out[n].i = 0)

\* C6: the output decreases in (chromosome, position) only after a record that
\* was printed inside the chromosome-boundary branch.
C6_DecreaseOnlyAtFlush ==
  \A n \in 1..(Len(out) - 1) :
    Before(out[n + 1], out[n]) => emitLine[n] \in {136, 138}

\* C6 witness: the record after one printed in the boundary branch sorts before it.
C6_Witness ==
  \E n \in 1..(Len(out) - 1) : Before(out[n + 1], out[n]) /\ emitLine[n] = 138

\* ------------------------------------------- combine_headers: properties

Names(samples) == {samples[n] : n \in 1..Len(samples)}

\* The subsequence of s of the elements in the set S.
Restrict(s, S) == LET In(x) == x \in S IN SelectSeq(s, In)

\* The line declares the floating-point type: its Type value is Float.
DeclaresFloat(line) == line.type = "Float"

CategorySet == {Categories[n] : n \in 1..Len(Categories)}

\* C7: the merged samples are the samples of h1 whose names occur in h2, in
\* h1's order, whatever the order of h2's samples.
C7_MergedSamples ==
  header # NoHeader => header.samples = Restrict(h1.samples, Names(h2.samples))

\* C7 witness: two merged samples that h2 lists in the opposite order, around a
\* sample h1 does not have.
C7_Witness ==
  /\ header # NoHeader
  /\ header.samples = <<"S1", "S3">>
  /\ h2.samples = <<"S3", "S2", "S1">>

\* C8: the lookup of a merged sample in h2 never fails; each projection has one
\* entry per merged sample, the entry being the place in the source's header of
\* the merged sample's name; and sample column n of a record a stream yielded is
\* the column of its source line at that place.
C8_Projection ==
  /\ err # "ValueError"
  /\ header # NoHeader =>
       \A k \in {0, 1} :
         /\ Len(Hdr(k).idxs) = Len(header.samples)
         /\ \A n \in 1..Len(header.samples) :
              /\ Hdr(k).idxs[n].idx \in 0..(Len(Hdr(k).samples) - 1)
              /\ Hdr(k).samples[Hdr(k).idxs[n].idx + 1] = header.samples[n]
         /\ \A y \in 1..Len(yielded[k]) :
              /\ Len(yielded[k][y].rec.toks) = 9 + Len(header.samples)
              /\ \A n \in 1..Len(header.samples) :
                   yielded[k][y].rec.toks[9 + n]
                     = files[k][yielded[k][y].line][9 + Hdr(k).idxs[n].idx + 1]

\* C8 witness: file 1's stream yielded a record under a projection that swaps and
\* skips columns.
C8_Witness ==
  /\ header # NoHeader
  /\ IdxsOf(h2) = <<2, 0>>
  /\ IdxsOf(h1) = <<0, 1>>
  /\ yielded[1] # <<>>

\* C9: of two differing lines for one id, exactly one of which declares the type
\* Float, the merged map holds the one that declares Float, whichever header it
\* comes from.
C9_FloatWins ==
  header # NoHeader =>
    \A cat \in CategorySet : \A n \in 1..Len(h1[cat]) :
      LET id == h1[cat][n].id
          l1 == h1[cat][n].line
      IN (HasKey(h2[cat], id) /\ Lookup(h2[cat], id) # l1
            /\ DeclaresFloat(l1) # DeclaresFloat(Lookup(h2[cat], id)))
         => DeclaresFloat(Lookup(header[cat], id))

\* C10: in each category the merged map holds h1's ids in h1's order and then
\* the ids only h2 has in h2's order; an id of one header only keeps that
\* header's line; and combine_headers always returns a header, conflict or not.
C10_DefinitionUnion ==
  /\ pc # "start" => (header # NoHeader /\ err = "none")
  /\ header # NoHeader =>
       \A cat \in CategorySet :
         /\ Keys(header[cat])
              = Keys(h1[cat]) \o Restrict(Keys(h2[cat]), Names(Keys(h2[cat])) \ Names(Keys(h1[cat])))
         /\ Names(Keys(header[cat])) = Names(Keys(h1[cat])) \cup Names(Keys(h2[cat]))
         /\ \A id \in Names(Keys(h1[cat])) \ Names(Keys(h2[cat])) :
              Lookup(header[cat], id) = Lookup(h1[cat], id)
         /\ \A id \in Names(Keys(h2[cat])) \ Names(Keys(h1[cat])) :
              Lookup(header[cat], id) = Lookup(h2[cat], id)

\* C10 witness: a category in which h2 adds an id and conflicts on another, the
\* conflict resolved for h2's line, in front of an id of h1.
C10_Witness ==
  /\ header # NoHeader
  /\ Keys(h1.contigs) = <<"DP", "AF">>
  /\ Keys(h2.contigs) = <<"DP">>
  /\ Lookup(header.contigs, "DP") = Lookup(h2.contigs, "DP")
  /\ Lookup(h1.contigs, "DP") # Lookup(h2.contigs, "DP")
  /\ Keys(h1.filters) = <<>>
  /\ Len(warnings) = 2

\* C11: a header combined with itself (h2's definition maps equal to h1's) gives
\* h1's maps again, and no conflict is warned about.
C11_SelfCombine ==
  (header # NoHeader /\ \A cat \in CategorySet : h1[cat] = h2[cat])
    => /\ \A cat \in CategorySet : header[cat] = h1[cat]
       /\ warnings = <<>>

\* C11 witness: equal maps, one of them of two ids.
C11_Witness ==
  /\ header # NoHeader
  /\ \A cat \in CategorySet : h1[cat] = h2[cat]
  /\ Keys(h1.infos) = <<"AF", "DP">>

\* The first occurrences of s, in order.
RECURSIVE Dedup(_)
Dedup(s) ==
  IF s = <<>> THEN <<>>
  ELSE LET rest == Dedup(SubSeq(s, 1, Len(s) - 1))
       IN IF s[Len(s)] \in Names(rest) THEN rest ELSE Append(rest, s[Len(s)])

\* C14: the merged other list is h1's list as it is, then the lines of h2 that
\* are not present yet, in h2's order; every line of h2 is in the result.
C14_OtherLines ==
  header # NoHeader =>
    /\ header.other
         = h1.other \o Dedup(Restrict(h2.other, Names(h2.other) \ Names(h1.other)))
    /\ Names(h2.other) \subseteq Names(header.other)

\* C14 witness: h2 brings a new line in front of one h1 has, and h1 repeats a line.
C14_Witness ==
  /\ header # NoHeader
  /\ h1.other = <<"##source=a", "##source=a">>
  /\ h2.other = <<"##source=b", "##source=a">>
  /\ header.other = <<"##source=a", "##source=a", "##source=b">>


\* ------------------------------------------------- the record stream: properties

\* The lines of file k its stream has read, and those it yielded a record for.
Consumed(k) == 1..gens[k].pos
YieldedLines(k) == {yielded[k][y].line : y \in 1..Len(yielded[k])}

\* The line the stream of file k raised on, if it raised.
FailedLines(k) == IF gens[k].state = "failed" THEN {gens[k].pos} ELSE {}

DataLines(k) == {l \in 1..Len(files[k]) : ~IsMeta(files[k][l])}

\* The data lines read that were neither yielded nor raised on.
DroppedLines(k) == ((Consumed(k) \cap DataLines(k)) \ YieldedLines(k)) \ FailedLines(k)

SampleColumns(line) == SubSeq(Toks(line), 10, Len(Toks(line)))

\* The text of a sample column before its first ":" is one of the five tokens.
LeadsNoCall(col) ==
  /\ col # <<>>
  /\ col[1] \in {".", "./.", "0/0", ".|.", "0|0"}
  /\ Len(col) = 1 \/ col[2] = ":"

\* Every projected sample column of the line is there.
Projectable(k, line) ==
  \A n \in 1..Len(Hdr(k).idxs) : Hdr(k).idxs[n].idx < Len(SampleColumns(line))

Uninformative(k, line) ==
  \A n \in 1..Len(Hdr(k).idxs) : LeadsNoCall(SampleColumns(line)[Hdr(k).idxs[n].idx + 1])

\* C12: a stream drops a data line it read exactly when remove-ref is on and
\* every projected sample column leads with ".", "./.", "0/0", ".|." or "0|0";
\* with remove-ref off it drops none; its skipped counter is the number of
\* lines it dropped.
C12_RemoveRefFilter ==
  header # NoHeader =>
    \A k \in {0, 1} :
      /\ \A l \in (Consumed(k) \cap DataLines(k)) \ FailedLines(k) :
           /\ Projectable(k, files[k][l])
           /\ l \in DroppedLines(k) <=> (remove_ref /\ Uninformative(k, files[k][l]))
      /\ ~remove_ref => DroppedLines(k) = {}
      /\ gens[k].skipped = Cardinality(DroppedLines(k))

\* C12 witness: with remove-ref on, file 0's stream dropped a line whose
\* projected columns are "0/0:7" and ".|.", and file 1's stream dropped its
\* first line and yielded its second.
C12_Witness ==
  /\ header # NoHeader
  /\ remove_ref
  /\ Len(files[0]) = 2
  /\ Len(files[0][2]) = 12
  /\ files[0][2][11] = <<"0/0", ":", "7">>
  /\ files[0][2][12] = <<".|.">>
  /\ gens[0].skipped = 1
  /\ gens[1].skipped = 1
  /\ Len(yielded[1]) = 1

\* C15 (as claimed): every data line a stream read that has fewer sample columns
\* than its header has samples made the stream fail on that line, and no record
\* was yielded for it.
C15_ShortLineFatal ==
  header # NoHeader =>
    \A k \in {0, 1} :
      \A l \in Consumed(k) \cap DataLines(k) :
        Len(SampleColumns(files[k][l])) < Len(Hdr(k).samples)
          => /\ l \in FailedLines(k)
             /\ l \notin YieldedLines(k)

NoRepeat(s) == \A m \in 1..Len(s) : \A n \in 1..Len(s) : s[m] = s[n] => m = n

Min(a, b) == IF a <= b THEN a ELSE b

\* C16 (as claimed): for all header pairs the merged samples are at most
\* min(|h1.samples|, |h2.samples|).
C16_AtMostMin ==
  header # NoHeader => Len(header.samples) <= Min(Len(h1.samples), Len(h2.samples))

\* C16: for header pairs in which h1 names no sample twice, the merged samples
\* are at most min(|h1.samples|, |h2.samples|).
C16_AtMostMinDistinct ==
  (header # NoHeader /\ NoRepeat(h1.samples))
    => Len(header.samples) <= Min(Len(h1.samples), Len(h2.samples))

\* C16 witness: h1 names three samples once each, h2 two of them, and both are merged.
C16_Witness ==
  /\ header # NoHeader
  /\ h1.samples = <<"S1", "S2", "S3">>
  /\ h2.samples = <<"S3", "S1">>
  /\ Len(header.samples) = 2

\* C17: the REF of a yielded record is "." if its line has the REF N and an ALT
\* that begins with "<", and the line's REF otherwise; its other eight fixed
\* columns are the line's.
C17_RefRepair ==
  \A k \in {0, 1} :
    \A y \in 1..Len(yielded[k]) :
      LET line == files[k][yielded[k][y].line]
          toks == yielded[k][y].rec.toks
      IN /\ Len(toks) >= 9
         /\ toks[4] = IF line[4] = <<"N">> /\ line[5] # <<>> /\ line[5][1] = "<"
                      THEN <<".">> ELSE line[4]
         /\ \A c \in (1..9) \ {4} : toks[c] = line[c]

\* C17 witness: file 0's stream rewrote the REF N beside the ALT <DEL>, and file
\* 1's stream kept the REF N beside the ALT T<.
C17_Witness ==
  /\ Len(yielded[0]) = 1
  /\ Len(yielded[1]) = 1
  /\ Len(files[0]) = 1
  /\ Len(files[1]) = 1
  /\ files[0][1][4] = <<"N">>
  /\ files[0][1][5] = <<"<", "D", "E", "L", ">">>
  /\ yielded[0][1].rec.toks[4] = <<".">>
  /\ files[1][1][4] = <<"N">>
  /\ files[1][1][5] = <<"T", "<">>
  /\ yielded[1][1].rec.toks[4] = <<"N">>


\* ------------------------------------------ the merge: further properties

\* list(write_vcf_body(vcf k, hdr, k, rr)) for either setting rr of remove_ref.
RECURSIVE DrainWith(_, _, _)
DrainWith(k, g, rr) ==
  LET r == GenNext(files[k], g, IdxsOf(Hdr(k)), k, rr)
  IN IF r.kind = "rec" THEN <<r.rec>> \o DrainWith(k, r.gen, rr) ELSE <<>>

\* The run of main on the same two files with remove-ref off.
RunOff == MainRun([k \in {0, 1} |-> DrainWith(k, NewGen, FALSE)])

\* A record that remove-ref keeps.
Retained(r) == ~AllUnknownOrRef(SubSeq(r.toks, 10, Len(r.toks)))

\* C13 (as claimed): when the runs with remove-ref on and off both end
\* normally, what is printed with remove-ref on is what is printed with
\* remove-ref off without the dropped records.
C13_SameRelativeOrder ==
  (pc = "done" /\ remove_ref /\ RunOff.end = "done")
    => out = SelectSeq(RunOff.out, Retained)

CountOf(s, k) == Cardinality({n \in 1..Len(s) : s[n].i = k})

\* C18: the heap holds at most two records, no two of one stream; a record of
\* stream k in the heap is the last one pulled from k; and the records pulled
\* from k are those printed, the one popped and not yet printed, and the one in
\* the heap.
C18_OnePending ==
  /\ Len(pq) <= 2
  /\ \A m \in 1..Len(pq) : \A n \in 1..Len(pq) : pq[m].i = pq[n].i => m = n
  /\ \A n \in 1..Len(pq) :
       /\ yielded[pq[n].i] # <<>>
       /\ yielded[pq[n].i][Len(yielded[pq[n].i])].rec = pq[n]
  /\ pc \in {"seed", "loop", "boundary", "normal", "done"} =>
       \A k \in {0, 1} :
         Len(yielded[k]) = CountOf(out, k) + CountOf(pq, k)
                             + (IF pc \in {"boundary", "normal"} /\ cur.i = k THEN 1 ELSE 0)

\* C18 witness: two records of each stream were pulled, one of each is printed
\* and the second of each is in the heap.
C18_Witness ==
  /\ pc = "loop"
  /\ Len(pq) = 2
  /\ Len(out) = 2
  /\ Len(yielded[0]) = 2
  /\ Len(yielded[1]) = 2

\* C19 (as claimed): when the loop takes the chromosome-boundary branch, the
\* heap still holds a record after the first pop.
C19_SecondPopSucceeds == pc = "boundary" => pq # <<>>

\* C20: no step changes the definition maps, the other lines or the samples of
\* h1 or h2, and once the headers are combined no step changes their projections.
C20_InputsFramed ==
  [][ /\ \A cat \in CategorySet : h1'[cat] = h1[cat] /\ h2'[cat] = h2[cat]
      /\ h1'.other = h1.other /\ h2'.other = h2.other
      /\ h1'.samples = h1.samples /\ h2'.samples = h2.samples
      /\ header # NoHeader => h1'.idxs = h1.idxs /\ h2'.idxs = h2.idxs ]_vars

\* C20 witness: the merge ended after printing records, the merged header holds
\* h2's Float line for DP, and h1 still holds its Integer line.
C20_Witness ==
  /\ pc = "done"
  /\ out # <<>>
  /\ header # NoHeader
  /\ Lookup(header.infos, "DP") = Lookup(h2.infos, "DP")
  /\ Lookup(h1.infos, "DP") = DefLine("DP", "Integer", <<"d">>)
  /\ Lookup(h2.infos, "DP") = DefLine("DP", "Float", <<"d">>)

====
